---- MODULE Spec2Model ----
(***************************************************************************)
(* Model of stream-q/src/lib.rs: the Amazon Q Business chat adapter.       *)
(*                                                                         *)
(*  - QBusiness::chat / chat_async build the outbound input stream and     *)
(*    submit the request; on success the inbound event receiver is wrapped *)
(*    in a QChatStream (Arc<Mutex<EventReceiver>>).                        *)
(*  - QChatStream::__anext__ clones the Arc, spawns a future that locks    *)
(*    the mutex, awaits recv(), drops the guard and maps the received item *)
(*    to an Output, StopAsyncIteration or an exception.                    *)
(*                                                                         *)
(* The remote service and the SDK receiver are the environment: the        *)
(* service decides which frame arrives next, the receiver keeps returning  *)
(* Ok(None) once the body has ended.                                       *)
(***************************************************************************)
EXTENDS Integers, Sequences, FiniteSets, TLC

\* ------------------------------------------------------------------ bounds
MaxPulls == 3        \* number of __anext__ calls made on the iterator
MaxLen == 2          \* number of frames the service sends before the body ends

Pulls == 1..MaxPulls

MaxLivePulls == 2    \* __anext__ calls in the fair specification
LivePulls == 1..MaxLivePulls

\* ------------------------------------------------------------ Option<T>
None == [some |-> FALSE]
Some(x) == [some |-> TRUE, v |-> x]
IsSome(o) == o.some

UnwrapOrDefaultAlways(o, d) == d

\* Option::unwrap_or
UnwrapOr(o, d) == IF o.some THEN o.v ELSE d

\* ------------------------------------------------------------ chat inputs
Queries == {"", "hello", "hi"}
ConversationIds == {None, Some("conv0")}
ParentIds == {None, Some("msg0")}
AppId == "app"
RejectCauses == {"AccessDenied", "Throttling"}

\* TextInputEvent::builder().user_message(q).build(): user_message is the
\* only required member, build() fails when it was never set.
TextInputEventBuild(um) ==
    IF um.some THEN [ok |-> TRUE, v |-> [type |-> "TextEvent", user_message |-> um.v]]
    ELSE [ok |-> FALSE]

EndOfInputEventBuild == [type |-> "EndOfInputEvent"]

ChatInputsDropEnd(query) ==
    << TextInputEventBuild(Some(query)).v >>

\* chat_async, the vec! of input events
ChatInputs(query) ==
    << TextInputEventBuild(Some(query)).v, EndOfInputEventBuild >>

ChatAsyncDropParent(app_id, query, conversation, parent_msg) ==
    [application_id |-> app_id,
     conversation_id |-> conversation,
     parent_message_id |-> IF conversation.some THEN parent_msg ELSE None,
     input_stream |-> ChatInputs(query)]

\* chat_async, the request handed to send()
ChatAsync(app_id, query, conversation, parent_msg) ==
    [application_id |-> app_id,
     conversation_id |-> conversation,
     parent_message_id |-> parent_msg,
     input_stream |-> ChatInputs(query)]

\* format!("{:?}", e.into_service_error()): Debug prints the error type and
\* its content.
DebugServiceError(cause) == << "ChatError", cause >>

\* ------------------------------------------------------------ inbound items
TextEvent(m) == [type |-> "TextEvent", system_message |-> m]
MetadataEvent(c, u, s) ==
    [type |-> "MetadataEvent", conversation_id |-> c,
     user_message_id |-> u, system_message_id |-> s]
OtherEvent == [type |-> "Other"]
RecvError(k, c) == [type |-> "Err", kind |-> k, cause |-> c]

Events ==
    { TextEvent(None), TextEvent(Some("a")),
      MetadataEvent(Some("c"), Some("u"), Some("s")),
      MetadataEvent(Some("c"), Some("u"), None),
      OtherEvent }

Errors == { RecvError("ServiceError", "throttled") }

Frames == Events \cup Errors

\* ------------------------------------------------------------------ state
VARIABLES
    chat,       \* QBusiness::chat: [pc, args, request, attempts, error]
    sent,       \* input events the transport has taken from the input stream
    alive,      \* the QChatStream Python object exists
    strong,     \* strong count of the Arc around the mutex
    holder,     \* pull that owns the MutexGuard, 0 when the mutex is free
    waiters,    \* FIFO queue of pulls suspended in lock().await
    inbound,    \* frames the receiver has taken from the body so far
    cursor,     \* position of the next frame the receiver will take
    eos,        \* the receiver has seen the end of the body
    pull,       \* per __anext__ call: [pc, at, res, after]
    returned    \* what the caller's awaits have produced, in order

vars == << chat, sent, alive, strong, holder, waiters, inbound, cursor, eos,
           pull, returned >>

chatVars == << chat, sent >>
iterVars == << alive, strong, holder, waiters, inbound, cursor, eos, pull, returned >>

ArcCloneBorrowed(n) == n

\* Arc::clone: one more strong reference
ArcClone(n) == n + 1

ArcDropLeaked(n) == n

\* dropping an Arc: one strong reference less
ArcDrop(n) == n - 1

NoPull == [pc |-> "idle", at |-> 0, res |-> [tag |-> "none"], after |-> 0]

\* QChatStream::new: Arc::new(Mutex::new(stream_receiver))
QChatStreamNew ==
    /\ alive' = TRUE
    /\ strong' = 1
    /\ holder' = 0
    /\ waiters' = << >>
    /\ inbound' = << >>
    /\ cursor' = 1
    /\ eos' = FALSE
    /\ pull' = [p \in Pulls |-> NoPull]
    /\ returned' = << >>

NoIterator ==
    /\ alive = FALSE
    /\ strong = 0
    /\ holder = 0
    /\ waiters = << >>
    /\ inbound = << >>
    /\ cursor = 1
    /\ eos = FALSE
    /\ pull = [p \in Pulls |-> NoPull]
    /\ returned = << >>

\* ------------------------------------------------------------ chat actions
ChatInit ==
    /\ chat = [pc |-> "idle", attempts |-> 0]
    /\ sent = << >>
    /\ NoIterator

\* QBusiness::chat up to the first poll of chat_req: the request is built
\* and submitted once.
Chat(query, conversation, parent_msg) ==
    /\ chat.pc = "idle"
    /\ chat' = [pc |-> "sending",
                args |-> [query |-> query, conversation |-> conversation,
                          parent_msg |-> parent_msg],
                request |-> ChatAsync(AppId, query, conversation, parent_msg),
                pending |-> ChatAsync(AppId, query, conversation, parent_msg).input_stream,
                attempts |-> chat.attempts + 1]
    /\ sent' = << >>
    /\ UNCHANGED iterVars

\* The transport polls the input stream (futures_util::stream::iter) for the
\* next outbound event.
TransportTake ==
    /\ chat.pc \in {"sending", "ok"}
    /\ chat.pending # << >>
    /\ sent' = Append(sent, Head(chat.pending))
    /\ chat' = [chat EXCEPT !.pending = Tail(@)]
    /\ UNCHANGED iterVars

\* chat_req.await returns Ok: the output stream is wrapped in a QChatStream.
ChatOk ==
    /\ chat.pc = "sending"
    /\ chat' = [chat EXCEPT !.pc = "ok"]
    /\ UNCHANGED sent
    /\ QChatStreamNew

ChatErrWithHandle(cause) ==
    /\ chat.pc = "sending"
    /\ chat' = [pc |-> "err", args |-> chat.args, request |-> chat.request,
                pending |-> << >>, attempts |-> chat.attempts,
                cause |-> cause,
                error |-> [kind |-> "PyException",
                           msg |-> DebugServiceError(cause)]]
    /\ UNCHANGED sent
    /\ QChatStreamNew

\* chat_req.await returns Err(cause): mapped to a PyException by the `?`, no
\* stream is made.
ChatErr(cause) ==
    /\ chat.pc = "sending"
    /\ chat' = [pc |-> "err", args |-> chat.args, request |-> chat.request,
                pending |-> << >>, attempts |-> chat.attempts,
                cause |-> cause,
                error |-> [kind |-> "PyException",
                           msg |-> DebugServiceError(cause)]]
    /\ UNCHANGED sent
    /\ UNCHANGED iterVars

ChatNext ==
    \/ \E q \in Queries, c \in ConversationIds, m \in ParentIds : Chat(q, c, m)
    \/ TransportTake
    \/ ChatOk
    \/ \E cause \in RejectCauses : ChatErr(cause)

ChatSpec == ChatInit /\ [][ChatNext]_vars

\* ------------------------------------------------------------ Output
OutputTextWithIds(value) ==
    [text |-> Some(value), chat_id |-> Some(""), user_msg_id |-> Some(""),
     sys_msg_id |-> Some("")]

\* Output::text
OutputText(value) ==
    [text |-> Some(value), chat_id |-> None, user_msg_id |-> None, sys_msg_id |-> None]

OutputMetadataSwapped(chat_id, user_msg, sys_msg) ==
    [text |-> None, chat_id |-> Some(chat_id),
     user_msg_id |-> Some(sys_msg), sys_msg_id |-> Some(user_msg)]

\* Output::metadata
OutputMetadata(chat_id, user_msg, sys_msg) ==
    [text |-> None, chat_id |-> Some(chat_id),
     user_msg_id |-> Some(user_msg), sys_msg_id |-> Some(sys_msg)]

DecodeOtherPanics(ev) ==
    CASE ev.type = "TextEvent" ->
            [panic |-> FALSE, out |-> OutputText(UnwrapOr(ev.system_message, ""))]
      [] ev.type = "MetadataEvent" ->
            IF ev.conversation_id.some /\ ev.user_message_id.some
               /\ ev.system_message_id.some
            THEN [panic |-> FALSE,
                  out |-> OutputMetadata(ev.conversation_id.v, ev.user_message_id.v,
                                         ev.system_message_id.v)]
            ELSE [panic |-> TRUE]
      [] OTHER ->
            [panic |-> TRUE]

\* The match on next_event: Option::unwrap panics on None.
Decode(ev) ==
    CASE ev.type = "TextEvent" ->
            [panic |-> FALSE, out |-> OutputText(UnwrapOr(ev.system_message, ""))]
      [] ev.type = "MetadataEvent" ->
            IF ev.conversation_id.some /\ ev.user_message_id.some
               /\ ev.system_message_id.some
            THEN [panic |-> FALSE,
                  out |-> OutputMetadata(ev.conversation_id.v, ev.user_message_id.v,
                                         ev.system_message_id.v)]
            ELSE [panic |-> TRUE]
      [] OTHER ->
            [panic |-> FALSE, out |-> OutputText("")]

\* e.to_string() on an SdkError: Display prints the variant's description
\* only, the source error is not part of it.
SdkErrorToString(e) ==
    CASE e.kind = "ServiceError" -> << "service error" >>
      [] e.kind = "DispatchFailure" -> << "dispatch failure" >>
      [] OTHER -> << "response error" >>

AnextResultErrAsStop(res) ==
    CASE res.tag \in {"Err", "OkNone"} ->
            [kind |-> "PyStopAsyncIteration", msg |-> << "Iterator exhausted" >>]
      [] OTHER ->
            IF Decode(res.ev).panic
            THEN [kind |-> "RustPanic"]
            ELSE [kind |-> "Output", out |-> Decode(res.ev).out]

\* The body of the spawned future after recv(): what the awaiting caller gets.
\* A panic inside the future reaches the caller as pyo3_asyncio's RustPanic.
AnextResult(res) ==
    CASE res.tag = "Err" ->
            [kind |-> "PyException", msg |-> SdkErrorToString(res.e)]
      [] res.tag = "OkNone" ->
            [kind |-> "PyStopAsyncIteration", msg |-> << "Iterator exhausted" >>]
      [] OTHER ->
            IF Decode(res.ev).panic
            THEN [kind |-> "RustPanic"]
            ELSE [kind |-> "Output", out |-> Decode(res.ev).out]

\* ------------------------------------------------------------ tokio Mutex
MutexFreeAlways(h, w) == TRUE

\* lock() takes the mutex at once only when nobody holds it or queues for it
MutexFree(h, w) == h = 0 /\ w = << >>

RemoveFrom(w, p) == SelectSeq(w, LAMBDA x : x # p)

HolderAfterKeep(h, w, p) == h

HolderAfterLostWakeup(h, w, p) == IF h # p THEN h ELSE 0

\* Dropping the guard (or a pending lock()) of p: the permit goes to the
\* oldest waiter, if any.
HolderAfter(h, w, p) ==
    IF h # p THEN h
    ELSE IF RemoveFrom(w, p) # << >> THEN Head(RemoveFrom(w, p)) ELSE 0

WaitersAfter(h, w, p) ==
    IF h # p THEN RemoveFrom(w, p)
    ELSE IF RemoveFrom(w, p) # << >> THEN Tail(RemoveFrom(w, p)) ELSE << >>

\* ------------------------------------------------------------ receiver
BodyEndedForgotten(e) == FALSE

\* EventReceiver: once the body has ended recv() keeps returning Ok(None)
BodyEnded(e) == e

EndOfBody == [type |-> "End"]

NextCursorStuck(at) == at

NextCursorSkip(at) == at + 2

\* The receiver moves past the frame it has handed out.
NextCursor(at) == at + 1

RecvResult(f) ==
    CASE f.type = "End" -> [tag |-> "OkNone"]
      [] f.type = "Err" -> [tag |-> "Err", e |-> f]
      [] OTHER -> [tag |-> "OkSome", ev |-> f]

\* ------------------------------------------------------------ iterator
InFlight(p) == pull[p].pc \in {"spawned", "waiting", "recv", "got"}

\* State after chat("hello", None, None) has returned its QChatStream.
Init ==
    /\ chat = [pc |-> "ok",
               args |-> [query |-> "hello", conversation |-> None, parent_msg |-> None],
               request |-> ChatAsync(AppId, "hello", None, None),
               pending |-> << >>,
               attempts |-> 1]
    /\ sent = ChatAsync(AppId, "hello", None, None).input_stream
    /\ alive = TRUE
    /\ strong = 1
    /\ holder = 0
    /\ waiters = << >>
    /\ inbound = << >>
    /\ cursor = 1
    /\ eos = FALSE
    /\ pull = [p \in Pulls |-> NoPull]
    /\ returned = << >>

\* __anext__, synchronous part: clone the Arc and spawn the future.
Anext(p) ==
    /\ alive
    /\ pull[p].pc = "idle"
    /\ \A q \in Pulls : q < p => pull[q].pc # "idle"
    /\ strong' = ArcClone(strong)
    /\ pull' = [pull EXCEPT ![p] = [@ EXCEPT !.pc = "spawned", !.after = Len(returned)]]
    /\ UNCHANGED << chat, sent, alive, holder, waiters, inbound, cursor, eos, returned >>

\* First poll of the future: receiver.lock().await, then recv() starts.
Lock(p) ==
    /\ pull[p].pc = "spawned"
    /\ IF MutexFree(holder, waiters)
       THEN /\ holder' = p
            /\ pull' = [pull EXCEPT ![p] = [@ EXCEPT !.pc = "recv", !.at = cursor]]
            /\ UNCHANGED waiters
       ELSE /\ waiters' = Append(waiters, p)
            /\ pull' = [pull EXCEPT ![p] = [@ EXCEPT !.pc = "waiting"]]
            /\ UNCHANGED holder
    /\ UNCHANGED << chat, sent, alive, strong, inbound, cursor, eos, returned >>

\* A waiter that was handed the permit is polled again: recv() starts.
Resume(p) ==
    /\ pull[p].pc = "waiting"
    /\ holder = p
    /\ pull' = [pull EXCEPT ![p] = [@ EXCEPT !.pc = "recv", !.at = cursor]]
    /\ UNCHANGED << chat, sent, alive, strong, holder, waiters, inbound, cursor, eos,
                    returned >>

\* recv().await completes with frame f (chosen by the service when it is a
\* new frame); the guard is dropped at the end of the statement.
Recv(p, f) ==
    /\ pull[p].pc = "recv"
    /\ IF BodyEnded(eos)
       THEN /\ f = EndOfBody
            /\ UNCHANGED << inbound, cursor, eos >>
       ELSE IF pull[p].at <= Len(inbound)
       THEN /\ f = inbound[pull[p].at]
            /\ cursor' = NextCursor(pull[p].at)
            /\ UNCHANGED << inbound, eos >>
       ELSE IF f = EndOfBody
       THEN /\ eos' = TRUE
            /\ UNCHANGED << inbound, cursor >>
       ELSE /\ Len(inbound) < MaxLen
            /\ inbound' = Append(inbound, f)
            /\ cursor' = NextCursor(pull[p].at)
            /\ UNCHANGED eos
    /\ pull' = [pull EXCEPT ![p] = [@ EXCEPT !.pc = "got", !.res = RecvResult(f)]]
    /\ holder' = HolderAfter(holder, waiters, p)
    /\ waiters' = WaitersAfter(holder, waiters, p)
    /\ UNCHANGED << chat, sent, alive, strong, returned >>

\* The future finishes: its result reaches the caller and its Arc clone is
\* dropped.
Finish(p) ==
    /\ pull[p].pc = "got"
    /\ returned' = Append(returned, [pull |-> p, sig |-> AnextResult(pull[p].res)])
    /\ pull' = [pull EXCEPT ![p] = [@ EXCEPT !.pc = "done"]]
    /\ strong' = ArcDrop(strong)
    /\ UNCHANGED << chat, sent, alive, holder, waiters, inbound, cursor, eos >>

\* The caller cancels the awaited future: the Rust future is dropped where it
\* is suspended (in lock().await or in recv().await).
Cancel(p) ==
    /\ pull[p].pc \in {"spawned", "waiting", "recv"}
    /\ returned' = Append(returned, [pull |-> p, sig |-> [kind |-> "Cancelled"]])
    /\ pull' = [pull EXCEPT ![p] = [@ EXCEPT !.pc = "cancelled"]]
    /\ holder' = HolderAfter(holder, waiters, p)
    /\ waiters' = WaitersAfter(holder, waiters, p)
    /\ strong' = ArcDrop(strong)
    /\ UNCHANGED << chat, sent, alive, inbound, cursor, eos >>

\* The caller drops the QChatStream object.
DropStream ==
    /\ alive
    /\ alive' = FALSE
    /\ strong' = ArcDrop(strong)
    /\ UNCHANGED << chat, sent, holder, waiters, inbound, cursor, eos, pull, returned >>

Next ==
    \/ \E p \in Pulls : Anext(p)
    \/ \E p \in Pulls : Lock(p)
    \/ \E p \in Pulls : Resume(p)
    \/ \E p \in Pulls, f \in Frames \cup {EndOfBody} : Recv(p, f)
    \/ \E p \in Pulls : Finish(p)
    \/ \E p \in Pulls : Cancel(p)
    \/ DropStream

Spec == Init /\ [][Next]_vars

\* The same steps for the first MaxLivePulls calls, under fair scheduling:
\* the runtime polls every runnable future, the mutex hands the permit to
\* its waiters in FIFO order, and the service delivers the next frame or
\* ends the (finite) stream.  Cancelling and dropping are up to the caller.
LiveNext ==
    \/ \E p \in LivePulls : Anext(p)
    \/ \E p \in LivePulls : Lock(p)
    \/ \E p \in LivePulls : Resume(p)
    \/ \E p \in LivePulls, f \in Frames \cup {EndOfBody} : Recv(p, f)
    \/ \E p \in LivePulls : Finish(p)
    \/ \E p \in LivePulls : Cancel(p)
    \/ DropStream

LiveSpec ==
    /\ Init
    /\ [][LiveNext]_vars
    /\ \A p \in LivePulls :
          /\ WF_vars(Lock(p))
          /\ WF_vars(Resume(p))
          /\ WF_vars(\E f \in Frames \cup {EndOfBody} : Recv(p, f))
          /\ WF_vars(Finish(p))

TypeOK ==
    /\ holder \in 0..MaxPulls
    /\ cursor \in 1..(MaxLen + 1)
    /\ Len(inbound) <= MaxLen
    /\ strong \in 0..(MaxPulls + 1)

\* ------------------------------------------------------------ helpers
Range(sq) == { sq[i] : i \in 1..Len(sq) }
MapSeq(sq, Op(_)) == [i \in 1..Len(sq) |-> Op(sq[i])]
IsPrefix(a, b) == Len(a) <= Len(b) /\ SubSeq(b, 1, Len(a)) = a

Rets == 1..Len(returned)
Kind(i) == returned[i].sig.kind
ResOf(i) == pull[returned[i].pull].res

\* The pull answered at position j was invoked after answer i was delivered.
Later(j, i) == pull[returned[j].pull].after >= i

\* Every pull was invoked only after all earlier pulls had been answered.
Sequential == \A p \in Pulls : pull[p].pc # "idle" => pull[p].after = p - 1

IsFailure(k) == k \in {"PyException", "RustPanic"}

WellFormed(ev) ==
    \/ ev.type = "TextEvent"
    \/ /\ ev.type = "MetadataEvent"
       /\ ev.conversation_id.some /\ ev.user_message_id.some /\ ev.system_message_id.some

Malformed(ev) == ev.type = "MetadataEvent" /\ ~WellFormed(ev)

\* The Output the spec assigns to a decodable inbound event.
ExpectedOutput(ev) ==
    IF ev.type = "TextEvent"
    THEN [text |-> Some(IF ev.system_message.some THEN ev.system_message.v ELSE ""),
          chat_id |-> None, user_msg_id |-> None, sys_msg_id |-> None]
    ELSE [text |-> None, chat_id |-> ev.conversation_id,
          user_msg_id |-> ev.user_message_id, sys_msg_id |-> ev.system_message_id]

SigOut(r) == r.sig.out
OutputsReturned == MapSeq(SelectSeq(returned, LAMBDA r : r.sig.kind = "Output"), SigOut)

\* Frames whose pull has been answered (sequential use: a prefix of inbound).
FramesAnswered ==
    IF \E p \in Pulls : pull[p].pc = "got" /\ pull[p].res.tag # "OkNone"
    THEN SubSeq(inbound, 1, Len(inbound) - 1)
    ELSE inbound

\* ------------------------------------------------------------ C1
\* C1: for every query (the empty one included) and every choice of optional
\* identifiers, the input-event sequence chat submits is exactly
\* [TextTurn(query), EndOfInput]; the transport sends these two, in this
\* order, and nothing else.
C1_OutboundIsTurnThenEnd ==
    chat.pc # "idle" =>
        /\ chat.request.input_stream =
              << [type |-> "TextEvent", user_message |-> chat.args.query],
                 [type |-> "EndOfInputEvent"] >>
        /\ IsPrefix(sent, chat.request.input_stream)
        /\ chat.pc # "err" => sent \o chat.pending = chat.request.input_stream

C1_Witness ==
    /\ chat.pc = "ok"
    /\ chat.args.query = ""
    /\ chat.args.conversation = None
    /\ chat.args.parent_msg.some
    /\ Len(sent) = 2

\* ------------------------------------------------------------ C2
\* C2: with sequential pulls over an inbound stream of TextChunk and Metadata
\* events, the Outputs returned are, in order, the Outputs of the decodable
\* events consumed so far, each exactly once, and exhaustion is signalled
\* only when every decodable event of the stream has been returned.
C2_OutputsInInboundOrder ==
    (Sequential /\ \A i \in 1..Len(inbound) :
                      inbound[i].type \in {"TextEvent", "MetadataEvent"}) =>
        /\ OutputsReturned = MapSeq(SelectSeq(FramesAnswered, WellFormed), ExpectedOutput)
        /\ (\E i \in Rets : Kind(i) = "PyStopAsyncIteration") =>
              /\ eos
              /\ Len(OutputsReturned) = Len(SelectSeq(inbound, WellFormed))

C2_Witness ==
    /\ Sequential
    /\ Len(returned) = 3
    /\ Kind(1) = "Output" /\ returned[1].sig.out.text = Some("a")
    /\ Kind(2) = "Output" /\ returned[2].sig.out.chat_id = Some("c")
    /\ returned[2].sig.out.sys_msg_id = Some("s")
    /\ Kind(3) = "PyStopAsyncIteration"

\* ------------------------------------------------------------ C3
\* C3: an inbound event that is neither TextChunk nor Metadata never produces
\* an answer to the caller: no pull returns for such an event.
C3_UnrecognizedNeverAnswered ==
    \A i \in Rets :
        ResOf(i).tag = "OkSome" =>
            ResOf(i).ev.type \in {"TextEvent", "MetadataEvent"}

\* ------------------------------------------------------------ C4
\* C4: once a pull has signalled exhaustion, every pull invoked afterwards
\* signals exhaustion too (unless the caller cancels it): none returns an
\* Output, fails or panics, and none that has received got anything but the
\* end of the stream.
C4_ExhaustionRepeats ==
    \A i \in Rets :
        Kind(i) = "PyStopAsyncIteration" =>
            /\ \A j \in Rets :
                  Later(j, i) => Kind(j) \in {"PyStopAsyncIteration", "Cancelled"}
            /\ \A q \in Pulls :
                  (pull[q].pc = "got" /\ pull[q].after >= i) => pull[q].res.tag = "OkNone"

C4_Witness ==
    \E i, j, k \in Rets :
        /\ i < j /\ j < k
        /\ Kind(i) = "PyStopAsyncIteration"
        /\ Kind(j) = "PyStopAsyncIteration" /\ Later(j, i)
        /\ Kind(k) = "PyStopAsyncIteration" /\ Later(k, j)

\* ------------------------------------------------------------ C5
\* C5: once a pull has signalled a failure, every pull invoked afterwards
\* signals the same failure (unless the caller cancels it); none returns an
\* Output or signals exhaustion.
C5_FailureRepeats ==
    \A i, j \in Rets :
        (IsFailure(Kind(i)) /\ Later(j, i)) =>
            \/ returned[j].sig = returned[i].sig
            \/ Kind(j) = "Cancelled"

\* ------------------------------------------------------------ C6
\* C6: a pull that receives a Metadata event with an identifier absent fails
\* with MalformedMetadataError, delivered as an error value (no crash, no
\* Output with defaults), and every later pull fails as well.
C6_MalformedMetadataFails ==
    \A i \in Rets :
        (ResOf(i).tag = "OkSome" /\ Malformed(ResOf(i).ev)) =>
            /\ Kind(i) = "PyException"
            /\ returned[i].sig.msg = << "MalformedMetadataError" >>
            /\ \A j \in Rets : Later(j, i) => Kind(j) \in {"PyException", "Cancelled"}

\* ------------------------------------------------------------ C7
\* C7: at most one pull is inside recv() on the inbound stream at any moment,
\* and it is the pull that owns the mutex guard; every other pull that has
\* been polled is queued behind it.
C7_OneReader ==
    /\ Cardinality({ p \in Pulls : pull[p].pc = "recv" }) <= 1
    /\ \A p \in Pulls : pull[p].pc = "recv" => holder = p
    /\ \A p \in Pulls : pull[p].pc = "waiting" => (holder = p \/ p \in Range(waiters))

C7_Witness ==
    \E p, q \in Pulls :
        /\ pull[p].pc = "recv"
        /\ pull[q].pc = "waiting" /\ q \in Range(waiters)

\* ------------------------------------------------------------ C8
\* C8: each inbound frame is observed by at most one pull: two distinct pulls
\* that received a frame received frames at different stream positions.
C8_DisjointFrames ==
    \A p, q \in Pulls :
        (p # q /\ pull[p].res.tag \in {"OkSome", "Err"}
               /\ pull[q].res.tag \in {"OkSome", "Err"}) =>
            pull[p].at # pull[q].at

C8_Witness ==
    /\ ~Sequential
    /\ \E i, j \in Rets :
          /\ i < j
          /\ Kind(i) = "Output" /\ Kind(j) = "Output"
          /\ returned[i].pull > returned[j].pull

\* ------------------------------------------------------------ C9
\* C9: a pull that has ended (answered with an Output, exhaustion or an
\* error, or cancelled while queued for or holding the lock) neither holds
\* the mutex nor queues for it, and the mutex is free whenever no pull is
\* in flight.
C9_LockReleased ==
    /\ \A p \in Pulls :
          pull[p].pc \in {"got", "done", "cancelled"} =>
              (holder # p /\ p \notin Range(waiters))
    /\ (\A p \in Pulls : ~InFlight(p)) => (holder = 0 /\ waiters = << >>)

C9_Witness ==
    \E p, q, r \in Pulls :
        /\ pull[p].pc = "cancelled" /\ pull[p].at > 0
        /\ pull[q].pc = "cancelled" /\ pull[q].at = 0 /\ pull[q].after < Len(returned)
        /\ r > p /\ r > q /\ pull[r].pc = "done"

\* ------------------------------------------------------------ C10
\* C10: a receive error on a pull is signalled by that pull as a failure
\* that carries the underlying cause, and with sequential pulls it is the
\* answer at the stream position of the error.
C10_ErrorCarriesCause ==
    \A i \in Rets :
        ResOf(i).tag = "Err" =>
            /\ Kind(i) = "PyException"
            /\ ResOf(i).e.cause \in Range(returned[i].sig.msg)
            /\ (Sequential /\ \A j \in Rets : Kind(j) # "Cancelled") =>
                  pull[returned[i].pull].at = i

\* ------------------------------------------------------------ C11
\* C11: a pull signals exhaustion if and only if recv() reported the end of
\* the stream to that pull; a receive error or a malformed event is never
\* answered with exhaustion and a normal end of stream never with a failure.
C11_ExhaustionIffEndOfStream ==
    \A i \in Rets :
        /\ Kind(i) = "PyStopAsyncIteration" <=> ResOf(i).tag = "OkNone"
        /\ ResOf(i).tag = "Err" => Kind(i) = "PyException"
        /\ (ResOf(i).tag = "OkSome" /\ Malformed(ResOf(i).ev)) => IsFailure(Kind(i))

C11_Witness ==
    \E i, j, k \in Rets :
        /\ Kind(i) = "PyException" /\ ResOf(i).tag = "Err"
        /\ Kind(j) = "RustPanic"
        /\ Kind(k) = "PyStopAsyncIteration"

\* ------------------------------------------------------------ C12
\* C12: an unrecognized inbound event is answered without an error and
\* without exhaustion, it does not end the stream, and every decodable event
\* received at a later stream position is still delivered as its Output.
C12_UnrecognizedDoesNotTerminate ==
    \A i \in Rets :
        (ResOf(i).tag = "OkSome" /\ ResOf(i).ev.type = "Other") =>
            /\ ~IsFailure(Kind(i))
            /\ Kind(i) # "PyStopAsyncIteration"
            /\ \A j \in Rets :
                  ( /\ ResOf(j).tag = "OkSome"
                    /\ WellFormed(ResOf(j).ev)
                    /\ pull[returned[j].pull].at > pull[returned[i].pull].at ) =>
                      /\ Kind(j) = "Output"
                      /\ returned[j].sig.out = ExpectedOutput(ResOf(j).ev)

C12_Witness ==
    \E i, j \in Rets :
        /\ ResOf(i).tag = "OkSome" /\ ResOf(i).ev.type = "Other"
        /\ ResOf(j).tag = "OkSome" /\ ResOf(j).ev.type = "MetadataEvent"
        /\ pull[returned[j].pull].at = pull[returned[i].pull].at + 1
        /\ Kind(j) = "Output"
        /\ ~eos

\* ------------------------------------------------------------ C13
\* C13: a chat call submits its request once and ends in exactly one of two
\* outcomes: a stream wrapped in an iterator and no error, or an error that
\* carries the cause of the rejection and no iterator at all.
C13_OneAttemptOneOutcome ==
    /\ chat.attempts <= 1
    /\ chat.pc = "idle" => (chat.attempts = 0 /\ ~alive /\ strong = 0)
    /\ chat.pc = "sending" => (chat.attempts = 1 /\ ~alive /\ strong = 0)
    /\ chat.pc = "ok" =>
          /\ chat.attempts = 1
          /\ alive /\ strong = 1
          /\ "error" \notin DOMAIN chat
    /\ chat.pc = "err" =>
          /\ chat.attempts = 1
          /\ ~alive /\ strong = 0
          /\ chat.error.kind = "PyException"
          /\ chat.cause \in Range(chat.error.msg)

C13_Witness ==
    /\ chat.pc = "err"
    /\ chat.cause = "Throttling"
    /\ Len(sent) = 1

\* ------------------------------------------------------------ C14
\* C14: every Output a pull returns has exactly one shape: text present and
\* the three identifiers absent, or text absent and the three identifiers
\* present.
C14_OneShape ==
    \A i \in Rets :
        Kind(i) = "Output" =>
            LET o == returned[i].sig.out IN
            \/ /\ o.text.some
               /\ ~o.chat_id.some /\ ~o.user_msg_id.some /\ ~o.sys_msg_id.some
            \/ /\ ~o.text.some
               /\ o.chat_id.some /\ o.user_msg_id.some /\ o.sys_msg_id.some

C14_Witness ==
    \E i, j \in Rets :
        /\ Kind(i) = "Output" /\ returned[i].sig.out.text.some
        /\ Kind(j) = "Output" /\ ~returned[j].sig.out.text.some

\* ------------------------------------------------------------ C15
\* C15: a TextChunk is always answered with a Text Output: Text(m) for a
\* present message m, Text("") for an absent one; it is never an error and
\* never the end of the iteration.
C15_TextChunkDecodes ==
    \A i \in Rets :
        (ResOf(i).tag = "OkSome" /\ ResOf(i).ev.type = "TextEvent") =>
            /\ Kind(i) = "Output"
            /\ returned[i].sig.out.text =
                  (IF ResOf(i).ev.system_message.some
                   THEN ResOf(i).ev.system_message ELSE Some(""))
            /\ ~returned[i].sig.out.chat_id.some
            /\ ~returned[i].sig.out.user_msg_id.some
            /\ ~returned[i].sig.out.sys_msg_id.some

C15_Witness ==
    \E i, j \in Rets :
        /\ i < j
        /\ ResOf(i).tag = "OkSome" /\ ResOf(i).ev = TextEvent(None)
        /\ Kind(i) = "Output" /\ returned[i].sig.out.text = Some("")
        /\ ResOf(j).tag = "OkSome" /\ ResOf(j).ev = TextEvent(Some("a"))
        /\ Kind(j) = "Output" /\ returned[j].sig.out.text = Some("a")

\* ------------------------------------------------------------ C16
\* C16: the request carries conversation_id and parent_message_id exactly as
\* given to chat, for every combination of present and absent values, and
\* every combination is submitted (none is rejected locally).
C16_IdentifiersForwarded ==
    chat.pc # "idle" =>
        /\ chat.request.conversation_id = chat.args.conversation
        /\ chat.request.parent_message_id = chat.args.parent_msg
        /\ chat.request.application_id = AppId
        /\ chat.attempts = 1

C16_Witness ==
    /\ chat.pc = "sending"
    /\ chat.args.conversation = None
    /\ chat.args.parent_msg = Some("msg0")
    /\ chat.request.parent_message_id = Some("msg0")

\* ------------------------------------------------------------ C17
\* C17: once the iterator object has been dropped and no pull on it is in
\* flight, no strong reference to the stream handle remains, whether or not
\* the stream had reached its end.
C17_DroppedReleasesHandle ==
    (~alive /\ \A p \in Pulls : ~InFlight(p)) => strong = 0

C17_Witness ==
    /\ ~alive
    /\ strong = 0
    /\ ~eos
    /\ \A i \in Rets : Kind(i) \in {"Output", "Cancelled"}
    /\ \E i, j \in Rets : Kind(i) = "Output" /\ Kind(j) = "Cancelled"

\* ------------------------------------------------------------ C18
\* C18: the iterator never reads ahead: before the first pull nothing has
\* been taken from the inbound stream, the items taken (frames and the end
\* of the stream) never outnumber the pulls invoked, each frame taken went to
\* a pull, and a receive completes only in the pull that holds the lock.
C18_NoReadAhead ==
    /\ [](/\ (\A p \in Pulls : pull[p].pc = "idle") =>
                (inbound = << >> /\ cursor = 1 /\ ~eos)
          /\ Len(inbound) + (IF eos THEN 1 ELSE 0)
                <= Cardinality({ p \in Pulls : pull[p].pc # "idle" })
          /\ cursor = Len(inbound) + 1
          /\ Len(inbound) =
                Cardinality({ p \in Pulls : pull[p].res.tag \in {"OkSome", "Err"} }))
    /\ [][(inbound' # inbound \/ eos' # eos \/ cursor' # cursor) =>
             \E p \in Pulls : /\ pull[p].pc = "recv" /\ holder = p
                              /\ pull'[p].pc = "got"]_vars

C18_Witness ==
    /\ Len(inbound) = 2
    /\ eos
    /\ \A p \in Pulls : pull[p].pc = "done"

\* ------------------------------------------------------------ C19
\* C19: while a pull is queued for the lock or receiving, the stream handle
\* is alive: every in-flight pull owns a strong reference, also after the
\* iterator object has been dropped.
C19_InFlightKeepsHandle ==
    /\ strong >= Cardinality({ p \in Pulls : InFlight(p) })
    /\ \A p \in Pulls : InFlight(p) => strong > 0

C19_Witness ==
    /\ ~alive
    /\ strong = 2
    /\ \E p, q \in Pulls : pull[p].pc = "recv" /\ pull[q].pc = "waiting"

\* ------------------------------------------------------------ C20
\* C20: under fair scheduling of the futures, the lock and the stream, every
\* pull that was invoked is eventually answered with an Output, exhaustion
\* or a failure (or ends cancelled by its caller): none waits on the lock
\* forever and none ends without an answer.
C20_EveryPullAnswered ==
    \A p \in LivePulls :
        (pull[p].pc = "spawned") ~>
            (\E i \in Rets :
                /\ returned[i].pull = p
                /\ \/ pull[p].pc = "cancelled"
                   \/ /\ pull[p].pc = "done"
                      /\ Kind(i) \in {"Output", "PyStopAsyncIteration",
                                      "PyException", "RustPanic"})

C20_Witness ==
    /\ pull[1].pc = "done" /\ pull[2].pc = "done"
    /\ pull[2].after = 0
    /\ pull[1].res.tag = "OkSome" /\ pull[1].res.ev.type = "Other"
    /\ pull[2].at = 2
    /\ pull[2].res.tag \in {"OkNone", "Err"}

====
